---------------------------- MODULE Spec2Model ----------------------------
(***************************************************************************)
(* Model of src/app.py: the personality-prediction service.                *)
(*                                                                         *)
(*   Dataset    text normalisation (process_tweet), the six style averages *)
(*              (count_avg_*, generate_features) and process()             *)
(*   Predictor  per-trait artifact loading, load_input, estimate_traits    *)
(*   Respond    the request handler post()                                 *)
(*                                                                         *)
(* A text is a sequence of one-character strings.  Python values that can  *)
(* be None are records with a "tag" field.  A float produced by count/len  *)
(* is kept as the exact quotient [num, den].                               *)
(***************************************************************************)
EXTENDS Integers, Sequences, FiniteSets, TLC

VARIABLES
    sample,       \* normaliser harness: the text handed to process_tweet
    normalized,   \* normaliser harness: process_tweet(tweet)
    renormalized, \* normaliser harness: process_tweet(process_tweet(tweet))
    data,         \* library harness: one Dataset object driven by a caller
    caller,       \* library harness: the caller's record of its calls on data
    serving,      \* TRUE when the module runs as the Flask application
    disk,         \* which files exist under ./models
    loads,        \* number of pickle.load calls so far, per artifact file
    req           \* per request: position in Respond.post and its local objects

vars == <<sample, normalized, renormalized, data, caller, serving, disk, loads, req>>

---------------------------------------------------------------------------
(* Python values *)

PyNone == [tag |-> "None"]
PyStr(s) == [tag |-> "str", chars |-> s]
PyList(s) == [tag |-> "list", items |-> s]
PyFloat(n, d) == [tag |-> "float", num |-> n, den |-> d]
Raised(e) == [tag |-> "raise", exc |-> e]
PyDict(f) == [tag |-> "dict", items |-> f]
PyArray(rows) == [tag |-> "ndarray", rows |-> rows]

---------------------------------------------------------------------------
(* Characters *)

UpperLetters ==
    <<"A", "B", "C", "D", "E", "F", "G", "H", "I", "J", "K", "L", "M",
      "N", "O", "P", "Q", "R", "S", "T", "U", "V", "W", "X", "Y", "Z">>
LowerLetters ==
    <<"a", "b", "c", "d", "e", "f", "g", "h", "i", "j", "k", "l", "m",
      "n", "o", "p", "q", "r", "s", "t", "u", "v", "w", "x", "y", "z">>
Digits == {"0", "1", "2", "3", "4", "5", "6", "7", "8", "9"}

Range(s) == {s[i] : i \in DOMAIN s}

IsUpper(c) == c \in Range(UpperLetters)
IsLower(c) == c \in Range(LowerLetters)
\* [a-zA-Z]
IsLetter(c) == IsUpper(c) \/ IsLower(c)
\* \w on ASCII text: letter, digit or underscore
IsWordChar(c) == IsLetter(c) \/ c \in Digits \/ c = "_"
\* \s on ASCII text
IsSpace(c) == c \in {" ", "\t", "\n", "\r", "\f"}

\* str.lower() on one character
LowerChar(c) ==
    IF IsUpper(c)
    THEN LowerLetters[CHOOSE i \in DOMAIN UpperLetters : UpperLetters[i] = c]
    ELSE c

\* text[i:] starts with the literal lit
StartsWithAt(text, i, lit) ==
    /\ i + Len(lit) - 1 <= Len(text)
    /\ \A k \in DOMAIN lit : text[i + k - 1] = lit[k]

\* length of the run of characters equal to text[i] that starts at i
RECURSIVE RunLen(_, _)
RunLen(text, i) ==
    IF i < Len(text) /\ text[i + 1] = text[i]
    THEN RunLen(text, i + 1) + 1
    ELSE IF i <= Len(text) THEN 1 ELSE 0

---------------------------------------------------------------------------
(* Dataset.process_tweet *)

URL_TAG == <<"U", "R", "L">>
REPLY_TAG == <<"R", "E", "P">>
AT_USERNAME == <<"@", "u", "s", "e", "r", "n", "a", "m", "e">>
URL_SCHEMES ==
    << <<"h", "t", "t", "p", "s", ":", "/", "/">>,
       <<"h", "t", "t", "p", ":", "/", "/">>,
       <<"f", "t", "p", ":", "/", "/">> >>

\* number of characters of [^\s]* matched from position i
RECURSIVE NonSpaceLen(_, _)
NonSpaceLen(text, i) ==
    IF i <= Len(text) /\ ~IsSpace(text[i])
    THEN NonSpaceLen(text, i + 1) + 1
    ELSE 0

\* length of the match of (https?|ftp)://[^\s]* at position i, 0 if none
UrlMatchLen(text, i) ==
    IF \E k \in DOMAIN URL_SCHEMES : StartsWithAt(text, i, URL_SCHEMES[k])
    THEN LET k == CHOOSE j \in DOMAIN URL_SCHEMES :
                      /\ StartsWithAt(text, i, URL_SCHEMES[j])
                      /\ \A h \in DOMAIN URL_SCHEMES :
                             h < j => ~StartsWithAt(text, i, URL_SCHEMES[h])
             n == Len(URL_SCHEMES[k])
         IN  n + NonSpaceLen(text, i + n)
    ELSE 0

\* URL_REGEX.sub(URL_TAG, text) from position i on
RECURSIVE UrlSubFrom(_, _)
UrlSubFrom(text, i) ==
    IF i > Len(text) THEN <<>>
    ELSE IF UrlMatchLen(text, i) > 0
         THEN URL_TAG \o UrlSubFrom(text, i + UrlMatchLen(text, i))
         ELSE <<text[i]>> \o UrlSubFrom(text, i + 1)

\* REPLY_REGEX.sub(REPLY_TAG, text) from position i on
RECURSIVE ReplySubFrom(_, _)
ReplySubFrom(text, i) ==
    IF i > Len(text) THEN <<>>
    ELSE IF StartsWithAt(text, i, AT_USERNAME)
         THEN REPLY_TAG \o ReplySubFrom(text, i + Len(AT_USERNAME))
         ELSE <<text[i]>> \o ReplySubFrom(text, i + 1)

\* re.sub(r'(.)\1{3,}', r'\1\1\1', text) from position i on
RECURSIVE TrimRepeatsFrom(_, _)
TrimRepeatsFrom(text, i) ==
    IF i > Len(text) THEN <<>>
    ELSE IF text[i] # "\n" /\ RunLen(text, i) >= 4
         THEN <<text[i], text[i], text[i]>> \o TrimRepeatsFrom(text, i + RunLen(text, i))
         ELSE <<text[i]>> \o TrimRepeatsFrom(text, i + 1)

\* re.sub("[^a-zA-Z]", " ", text)
LettersOnly(text) == [i \in DOMAIN text |-> IF IsLetter(text[i]) THEN text[i] ELSE " "]

\* str.lower()
Lower(text) == [i \in DOMAIN text |-> LowerChar(text[i])]

\* str.split(): the maximal runs of non-whitespace, in order
RECURSIVE SplitFrom(_, _, _)
SplitFrom(text, i, word) ==
    IF i > Len(text)
    THEN IF word = <<>> THEN <<>> ELSE <<word>>
    ELSE IF IsSpace(text[i])
         THEN (IF word = <<>> THEN <<>> ELSE <<word>>) \o SplitFrom(text, i + 1, <<>>)
         ELSE SplitFrom(text, i + 1, Append(word, text[i]))
Split(text) == SplitFrom(text, 1, <<>>)

\* " ".join(words)
RECURSIVE Join(_)
Join(words) ==
    IF words = <<>> THEN <<>>
    ELSE IF Len(words) = 1 THEN Head(words)
    ELSE Head(words) \o <<" ">> \o Join(Tail(words))

\* stopwords.words('english') of the NLTK corpus
english_stopwords ==
    {
      <<"i">>, <<"m", "e">>, <<"m", "y">>, <<"m", "y", "s", "e", "l", "f">>, <<"w", "e">>,
      <<"o", "u", "r">>, <<"o", "u", "r", "s">>, <<"o", "u", "r", "s", "e", "l", "v", "e", "s">>,
      <<"y", "o", "u">>, <<"y", "o", "u", "'", "r", "e">>, <<"y", "o", "u", "'", "v", "e">>,
      <<"y", "o", "u", "'", "l", "l">>, <<"y", "o", "u", "'", "d">>, <<"y", "o", "u", "r">>,
      <<"y", "o", "u", "r", "s">>, <<"y", "o", "u", "r", "s", "e", "l", "f">>,
      <<"y", "o", "u", "r", "s", "e", "l", "v", "e", "s">>, <<"h", "e">>, <<"h", "i", "m">>,
      <<"h", "i", "s">>, <<"h", "i", "m", "s", "e", "l", "f">>, <<"s", "h", "e">>,
      <<"s", "h", "e", "'", "s">>, <<"h", "e", "r">>, <<"h", "e", "r", "s">>,
      <<"h", "e", "r", "s", "e", "l", "f">>, <<"i", "t">>, <<"i", "t", "'", "s">>,
      <<"i", "t", "s">>, <<"i", "t", "s", "e", "l", "f">>, <<"t", "h", "e", "y">>,
      <<"t", "h", "e", "m">>, <<"t", "h", "e", "i", "r">>, <<"t", "h", "e", "i", "r", "s">>,
      <<"t", "h", "e", "m", "s", "e", "l", "v", "e", "s">>, <<"w", "h", "a", "t">>,
      <<"w", "h", "i", "c", "h">>, <<"w", "h", "o">>, <<"w", "h", "o", "m">>,
      <<"t", "h", "i", "s">>, <<"t", "h", "a", "t">>, <<"t", "h", "a", "t", "'", "l", "l">>,
      <<"t", "h", "e", "s", "e">>, <<"t", "h", "o", "s", "e">>, <<"a", "m">>, <<"i", "s">>,
      <<"a", "r", "e">>, <<"w", "a", "s">>, <<"w", "e", "r", "e">>, <<"b", "e">>,
      <<"b", "e", "e", "n">>, <<"b", "e", "i", "n", "g">>, <<"h", "a", "v", "e">>,
      <<"h", "a", "s">>, <<"h", "a", "d">>, <<"h", "a", "v", "i", "n", "g">>, <<"d", "o">>,
      <<"d", "o", "e", "s">>, <<"d", "i", "d">>, <<"d", "o", "i", "n", "g">>, <<"a">>,
      <<"a", "n">>, <<"t", "h", "e">>, <<"a", "n", "d">>, <<"b", "u", "t">>, <<"i", "f">>,
      <<"o", "r">>, <<"b", "e", "c", "a", "u", "s", "e">>, <<"a", "s">>,
      <<"u", "n", "t", "i", "l">>, <<"w", "h", "i", "l", "e">>, <<"o", "f">>, <<"a", "t">>,
      <<"b", "y">>, <<"f", "o", "r">>, <<"w", "i", "t", "h">>, <<"a", "b", "o", "u", "t">>,
      <<"a", "g", "a", "i", "n", "s", "t">>, <<"b", "e", "t", "w", "e", "e", "n">>,
      <<"i", "n", "t", "o">>, <<"t", "h", "r", "o", "u", "g", "h">>,
      <<"d", "u", "r", "i", "n", "g">>, <<"b", "e", "f", "o", "r", "e">>,
      <<"a", "f", "t", "e", "r">>, <<"a", "b", "o", "v", "e">>, <<"b", "e", "l", "o", "w">>,
      <<"t", "o">>, <<"f", "r", "o", "m">>, <<"u", "p">>, <<"d", "o", "w", "n">>, <<"i", "n">>,
      <<"o", "u", "t">>, <<"o", "n">>, <<"o", "f", "f">>, <<"o", "v", "e", "r">>,
      <<"u", "n", "d", "e", "r">>, <<"a", "g", "a", "i", "n">>,
      <<"f", "u", "r", "t", "h", "e", "r">>, <<"t", "h", "e", "n">>, <<"o", "n", "c", "e">>,
      <<"h", "e", "r", "e">>, <<"t", "h", "e", "r", "e">>, <<"w", "h", "e", "n">>,
      <<"w", "h", "e", "r", "e">>, <<"w", "h", "y">>, <<"h", "o", "w">>, <<"a", "l", "l">>,
      <<"a", "n", "y">>, <<"b", "o", "t", "h">>, <<"e", "a", "c", "h">>, <<"f", "e", "w">>,
      <<"m", "o", "r", "e">>, <<"m", "o", "s", "t">>, <<"o", "t", "h", "e", "r">>,
      <<"s", "o", "m", "e">>, <<"s", "u", "c", "h">>, <<"n", "o">>, <<"n", "o", "r">>,
      <<"n", "o", "t">>, <<"o", "n", "l", "y">>, <<"o", "w", "n">>, <<"s", "a", "m", "e">>,
      <<"s", "o">>, <<"t", "h", "a", "n">>, <<"t", "o", "o">>, <<"v", "e", "r", "y">>, <<"s">>,
      <<"t">>, <<"c", "a", "n">>, <<"w", "i", "l", "l">>, <<"j", "u", "s", "t">>,
      <<"d", "o", "n">>, <<"d", "o", "n", "'", "t">>, <<"s", "h", "o", "u", "l", "d">>,
      <<"s", "h", "o", "u", "l", "d", "'", "v", "e">>, <<"n", "o", "w">>, <<"d">>, <<"l", "l">>,
      <<"m">>, <<"o">>, <<"r", "e">>, <<"v", "e">>, <<"y">>, <<"a", "i", "n">>,
      <<"a", "r", "e", "n">>, <<"a", "r", "e", "n", "'", "t">>, <<"c", "o", "u", "l", "d", "n">>,
      <<"c", "o", "u", "l", "d", "n", "'", "t">>, <<"d", "i", "d", "n">>,
      <<"d", "i", "d", "n", "'", "t">>, <<"d", "o", "e", "s", "n">>,
      <<"d", "o", "e", "s", "n", "'", "t">>, <<"h", "a", "d", "n">>,
      <<"h", "a", "d", "n", "'", "t">>, <<"h", "a", "s", "n">>, <<"h", "a", "s", "n", "'", "t">>,
      <<"h", "a", "v", "e", "n">>, <<"h", "a", "v", "e", "n", "'", "t">>, <<"i", "s", "n">>,
      <<"i", "s", "n", "'", "t">>, <<"m", "a">>, <<"m", "i", "g", "h", "t", "n">>,
      <<"m", "i", "g", "h", "t", "n", "'", "t">>, <<"m", "u", "s", "t", "n">>,
      <<"m", "u", "s", "t", "n", "'", "t">>, <<"n", "e", "e", "d", "n">>,
      <<"n", "e", "e", "d", "n", "'", "t">>, <<"s", "h", "a", "n">>,
      <<"s", "h", "a", "n", "'", "t">>, <<"s", "h", "o", "u", "l", "d", "n">>,
      <<"s", "h", "o", "u", "l", "d", "n", "'", "t">>, <<"w", "a", "s", "n">>,
      <<"w", "a", "s", "n", "'", "t">>, <<"w", "e", "r", "e", "n">>,
      <<"w", "e", "r", "e", "n", "'", "t">>, <<"w", "o", "n">>, <<"w", "o", "n", "'", "t">>,
      <<"w", "o", "u", "l", "d", "n">>, <<"w", "o", "u", "l", "d", "n", "'", "t">>
    }

\* the filter with the stopword test left out
KeepStops(words) == words

\* [w for w in words if not w in stops]
RECURSIVE DropStops(_)
DropStops(words) ==
    IF words = <<>> THEN <<>>
    ELSE IF Head(words) \in english_stopwords
         THEN DropStops(Tail(words))
         ELSE <<Head(words)>> \o DropStops(Tail(words))

process_tweet(text) ==
    LET tagged_urls == UrlSubFrom(text, 1)
        tagged == ReplySubFrom(tagged_urls, 1)
        trimmed == TrimRepeatsFrom(tagged, 1)
        letters_only == LettersOnly(trimmed)
        words == Split(Lower(letters_only))
        meaningful_words == DropStops(words)
    IN  Join(meaningful_words)

---------------------------------------------------------------------------
(* Dataset: the style counters *)

EMOTICON_EYES == << <<":">>, <<";">>, <<":", "'">>, <<"=">> >>
EMOTICON_MOUTHS == {")", "(", "D", "P", "d", "p", "3"}
EMOTICON_WORDS ==
    << <<"<", "3">>, <<"<", "/", "3">>, <<"x", "d">>, <<"x", "D">>, <<"X", "D">> >>

\* length of the match of (?:-)?(?:\)|\(|D|P|d|p|3) at position j, 0 if none
FaceLen(tweet, j) ==
    IF j + 1 <= Len(tweet) /\ tweet[j] = "-" /\ tweet[j + 1] \in EMOTICON_MOUTHS THEN 2
    ELSE IF j <= Len(tweet) /\ tweet[j] \in EMOTICON_MOUTHS THEN 1
    ELSE 0

\* (?::|;|:\'|=)(?:-)?(?:\)|\(|D|P|d|p|3)|<3|</3|xd|xD|XD at position i: the
\* first alternative that matches, in the order the pattern tries them
EmoticonMatchLen(tweet, i) ==
    LET eyes == {k \in DOMAIN EMOTICON_EYES :
                    /\ StartsWithAt(tweet, i, EMOTICON_EYES[k])
                    /\ FaceLen(tweet, i + Len(EMOTICON_EYES[k])) > 0}
        words == {k \in DOMAIN EMOTICON_WORDS : StartsWithAt(tweet, i, EMOTICON_WORDS[k])}
        First(S) == CHOOSE k \in S : \A h \in S : k <= h
    IN  IF eyes # {}
        THEN Len(EMOTICON_EYES[First(eyes)])
                 + FaceLen(tweet, i + Len(EMOTICON_EYES[First(eyes)]))
        ELSE IF words # {} THEN Len(EMOTICON_WORDS[First(words)])
        ELSE 0

\* (\w)\1{3,} at position i
RepetitionMatchLen(tweet, i) ==
    IF IsWordChar(tweet[i]) /\ RunLen(tweet, i) >= 4 THEN RunLen(tweet, i) ELSE 0

\* @username at position i
ReplyMatchLen(tweet, i) ==
    IF StartsWithAt(tweet, i, AT_USERNAME) THEN Len(AT_USERNAME) ELSE 0

\* number of characters of \w+ matched from position i
RECURSIVE WordLen(_, _)
WordLen(tweet, i) ==
    IF i <= Len(tweet) /\ IsWordChar(tweet[i]) THEN WordLen(tweet, i + 1) + 1 ELSE 0

\* #(\w+) at position i
HashtagMatchLen(tweet, i) ==
    IF tweet[i] = "#" /\ WordLen(tweet, i + 1) > 0 THEN 1 + WordLen(tweet, i + 1) ELSE 0

\* !+ at position i
ExclamationMatchLen(tweet, i) ==
    IF tweet[i] = "!" THEN RunLen(tweet, i) ELSE 0

\* the match of the named pattern at position i: its length, 0 if none
MatchLen(pattern, tweet, i) ==
    CASE pattern = "emoticons" -> EmoticonMatchLen(tweet, i)
      [] pattern = "repetitions" -> RepetitionMatchLen(tweet, i)
      [] pattern = "replies" -> ReplyMatchLen(tweet, i)
      [] pattern = "hashtags" -> HashtagMatchLen(tweet, i)
      [] pattern = "exclamations" -> ExclamationMatchLen(tweet, i)

\* len(re.findall(pattern, tweet)) from position i on: leftmost, non-overlapping
RECURSIVE FindallCount(_, _, _)
FindallCount(pattern, tweet, i) ==
    IF i > Len(tweet) THEN 0
    ELSE IF MatchLen(pattern, tweet, i) > 0
         THEN 1 + FindallCount(pattern, tweet, i + MatchLen(pattern, tweet, i))
         ELSE FindallCount(pattern, tweet, i + 1)

\* what one tweet adds to count in the loop of count_avg_<kind>
PerTweet(kind, tweet) ==
    IF kind = "tweet_len" THEN Len(tweet) ELSE FindallCount(kind, tweet, 1)

\* the loop "count = 0; for tweet in self.timeline: count += ..."
RECURSIVE CountOver(_, _)
CountOver(kind, tweets) ==
    IF tweets = <<>> THEN 0
    ELSE PerTweet(kind, Head(tweets)) + CountOver(kind, Tail(tweets))

\* count/len(self.timeline)
Divide(count, n) ==
    IF n = 0 THEN Raised("ZeroDivisionError") ELSE PyFloat(count, n)

count_avg_emoticons(self) ==
    IF self.timeline # PyNone
    THEN Divide(CountOver("emoticons", self.timeline.items), Len(self.timeline.items))
    ELSE PyNone

count_avg_repetitions(self) ==
    IF self.timeline # PyNone
    THEN Divide(CountOver("repetitions", self.timeline.items), Len(self.timeline.items))
    ELSE PyNone

count_avg_replies(self) ==
    IF self.timeline # PyNone
    THEN Divide(CountOver("replies", self.timeline.items), Len(self.timeline.items))
    ELSE PyNone

count_avg_hashtags(self) ==
    IF self.timeline # PyNone
    THEN Divide(CountOver("hashtags", self.timeline.items), Len(self.timeline.items))
    ELSE PyNone

count_avg_exclamations(self) ==
    IF self.timeline # PyNone
    THEN Divide(CountOver("exclamations", self.timeline.items), Len(self.timeline.items))
    ELSE PyNone

count_avg_tweet_len(self) ==
    IF self.timeline # PyNone
    THEN Divide(CountOver("tweet_len", self.timeline.items), Len(self.timeline.items))
    ELSE PyNone

---------------------------------------------------------------------------
(* Dataset: construction, generate_features, process *)

\* the texts of the posts: tweet_dict["text"] for tweet_dict in timeline_list
RECURSIVE TextsOf(_)
TextsOf(dicts) ==
    IF dicts = <<>> THEN <<>> ELSE <<Head(dicts).text>> \o TextsOf(Tail(dicts))

\* Dataset(timeline_list); fresh is the list object "[]" evaluates to
Dataset_init(fresh, timeline_list) ==
    [ timeline |->
          IF timeline_list # PyNone
          THEN PyList(fresh \o TextsOf(timeline_list.items))
          ELSE PyList(fresh),
      avg_emoticon_counts |-> PyNone,
      avg_hashtag_counts |-> PyNone,
      avg_exclamation_counts |-> PyNone,
      avg_reply_counts |-> PyNone,
      avg_repetition_counts |-> PyNone,
      avg_tweet_len |-> PyNone,
      processed_timeline |-> PyNone ]

\* a call's effect: the object afterwards and the value returned or exception raised
Outcome(self, value) == [self |-> self, value |-> value]
IsRaise(v) == v.tag = "raise"

\* the six assignments in order; an exception leaves the later fields
\* untouched (the counters read self.timeline only, which no assignment changes)
generate_features(self) ==
    LET v1 == count_avg_emoticons(self)
        v2 == count_avg_hashtags(self)
        v3 == count_avg_exclamations(self)
        v4 == count_avg_replies(self)
        v5 == count_avg_repetitions(self)
        v6 == count_avg_tweet_len(self)
    IN  IF IsRaise(v1) THEN Outcome(self, v1)
        ELSE IF IsRaise(v2)
        THEN Outcome([self EXCEPT !.avg_emoticon_counts = v1], v2)
        ELSE IF IsRaise(v3)
        THEN Outcome([self EXCEPT !.avg_emoticon_counts = v1, !.avg_hashtag_counts = v2], v3)
        ELSE IF IsRaise(v4)
        THEN Outcome([self EXCEPT !.avg_emoticon_counts = v1, !.avg_hashtag_counts = v2,
                                  !.avg_exclamation_counts = v3], v4)
        ELSE IF IsRaise(v5)
        THEN Outcome([self EXCEPT !.avg_emoticon_counts = v1, !.avg_hashtag_counts = v2,
                                  !.avg_exclamation_counts = v3, !.avg_reply_counts = v4], v5)
        ELSE IF IsRaise(v6)
        THEN Outcome([self EXCEPT !.avg_emoticon_counts = v1, !.avg_hashtag_counts = v2,
                                  !.avg_exclamation_counts = v3, !.avg_reply_counts = v4,
                                  !.avg_repetition_counts = v5], v6)
        ELSE Outcome([self EXCEPT !.avg_emoticon_counts = v1, !.avg_hashtag_counts = v2,
                                  !.avg_exclamation_counts = v3, !.avg_reply_counts = v4,
                                  !.avg_repetition_counts = v5, !.avg_tweet_len = v6],
                     PyNone)

\* list(map(self.process_tweet, self.timeline))
RECURSIVE MapProcessTweet(_)
MapProcessTweet(tweets) ==
    IF tweets = <<>> THEN <<>>
    ELSE <<process_tweet(Head(tweets))>> \o MapProcessTweet(Tail(tweets))

\* process() with the reply and repetition averages in each other's place
process_reordered(self) ==
    LET processed == PyStr(Join(MapProcessTweet(self.timeline.items)))
    IN  Outcome([self EXCEPT !.processed_timeline = processed],
                << <<processed>>,
                   << self.avg_emoticon_counts, self.avg_hashtag_counts,
                      self.avg_exclamation_counts, self.avg_repetition_counts,
                      self.avg_reply_counts, self.avg_tweet_len >> >>)

\* "".join(words)
RECURSIVE Concat(_)
Concat(words) ==
    IF words = <<>> THEN <<>> ELSE Head(words) \o Concat(Tail(words))

\* process() joining the normalised posts with no separator
process_unseparated(self) ==
    LET processed == PyStr(Concat(MapProcessTweet(self.timeline.items)))
    IN  Outcome([self EXCEPT !.processed_timeline = processed],
                << <<processed>>,
                   << self.avg_emoticon_counts, self.avg_hashtag_counts,
                      self.avg_exclamation_counts, self.avg_reply_counts,
                      self.avg_repetition_counts, self.avg_tweet_len >> >>)

\* process() computing the six averages itself before returning them
process_computing(self) ==
    LET processed == PyStr(Join(MapProcessTweet(self.timeline.items)))
        computed == generate_features(self).self
    IN  Outcome([computed EXCEPT !.processed_timeline = processed],
                << <<processed>>,
                   << computed.avg_emoticon_counts, computed.avg_hashtag_counts,
                      computed.avg_exclamation_counts, computed.avg_reply_counts,
                      computed.avg_repetition_counts, computed.avg_tweet_len >> >>)

\* the pair process() returns: [processed_timeline], [the six fields]
process(self) ==
    LET processed == PyStr(Join(MapProcessTweet(self.timeline.items)))
    IN  Outcome([self EXCEPT !.processed_timeline = processed],
                << <<processed>>,
                   << self.avg_emoticon_counts, self.avg_hashtag_counts,
                      self.avg_exclamation_counts, self.avg_reply_counts,
                      self.avg_repetition_counts, self.avg_tweet_len >> >>)

---------------------------------------------------------------------------
(* Predictor *)

\* the default of the personalities parameter
DEFAULT_PERSONALITIES == <<"extroverted", "stable", "agreeable", "conscientious", "open">>
TraitSet == Range(DEFAULT_PERSONALITIES)

\* the object pickled in ./models/<trait>_vectorizer.pkl: a fitted vectorizer,
\* here a count vectorizer given by its vocabulary
VectorizerFile(trait) ==
    CASE trait = "extroverted" -> << <<"l", "o", "v", "e">>, <<"g", "r", "e", "a", "t">> >>
      [] trait = "stable" -> << <<"m", "e", "h">> >>
      [] trait = "agreeable" -> << <<"g", "o", "o", "d">>, <<"r", "e", "p">> >>
      [] trait = "conscientious" -> << <<"u", "r", "l">>, <<"m", "e", "h">> >>
      [] trait = "open" -> << <<"s", "o", "o", "o">>, <<"l", "o", "v", "e">>, <<"x", "d">> >>

\* the object pickled in ./models/<trait>_model.pkl: a fitted regressor, here a
\* linear one; coefficients (text columns, then the six features) and
\* intercept are in thousandths
ModelFile(trait) ==
    CASE trait = "extroverted" ->
             [coef |-> <<310, 125, 200, 45, 90, -60, 15, 3>>, intercept |-> 105]
      [] trait = "stable" ->
             [coef |-> <<-215, -80, 35, -120, 10, -45, -2>>, intercept |-> 400]
      [] trait = "agreeable" ->
             [coef |-> <<180, 65, 150, -30, -75, 95, 20, 1>>, intercept |-> -55]
      [] trait = "conscientious" ->
             [coef |-> <<-95, 40, -110, 25, -65, 5, -140, 4>>, intercept |-> 250]
      [] trait = "open" ->
             [coef |-> <<70, 85, 130, 55, 115, 35, -20, 160, -1>>, intercept |-> 15]

\* Predictor(timeline, features): the loop of __init__ over self.personalities
\* loads the artifacts whose files exist
Predictor_init(timeline, features, personalities, files) ==
    [ personalities |-> personalities,
      timeline |-> timeline,
      features |-> features,
      models |-> [t \in Range(personalities) \cap files.model |-> ModelFile(t)],
      vectorizers |->
          [t \in Range(personalities) \cap files.vectorizer |-> VectorizerFile(t)] ]

\* the load counters after Predictor.__init__ ran
CountLoads(counters, personalities, files) ==
    [ vectorizer |->
          [t \in DOMAIN counters.vectorizer |->
              counters.vectorizer[t]
                  + Cardinality({i \in DOMAIN personalities :
                                    personalities[i] = t /\ t \in files.vectorizer})],
      model |->
          [t \in DOMAIN counters.model |->
              counters.model[t]
                  + Cardinality({i \in DOMAIN personalities :
                                    personalities[i] = t /\ t \in files.model})] ]

\* vectorizer.transform(docs).toarray(): per document, the number of
\* occurrences of each vocabulary word
Transform(vocabulary, docs) ==
    [d \in DOMAIN docs |->
        [j \in DOMAIN vocabulary |->
            LET words == Split(docs[d].chars)
            IN  PyFloat(Cardinality({k \in DOMAIN words : words[k] = vocabulary[j]}), 1)]]

\* np.column_stack with the features in front of the text columns
ColumnStackLeading(text_vec, features) ==
    [d \in DOMAIN text_vec |-> features \o text_vec[d]]

\* np.column_stack([text_vec, np.array([features])]): features as trailing columns
ColumnStack(text_vec, features) ==
    [d \in DOMAIN text_vec |-> text_vec[d] \o features]

load_input(self, trait) ==
    IF trait \notin DOMAIN self.vectorizers
    THEN Raised("KeyError")
    ELSE PyArray(ColumnStack(Transform(self.vectorizers[trait], self.timeline),
                             self.features))

\* intercept + coef . row, exactly, in units (coefficients are thousandths)
RECURSIVE Dot(_, _, _)
Dot(coef, row, n) ==
    IF n = 0 THEN PyFloat(0, 1)
    ELSE LET rest == Dot(coef, row, n - 1)
         IN  PyFloat(rest.num * row[n].den + coef[n] * row[n].num * rest.den,
                     rest.den * row[n].den)

\* model.predict(input_vec): one output per row
Predict(model, input_vec) ==
    LET rows == input_vec.rows
    IN  IF \E d \in DOMAIN rows : \E j \in DOMAIN rows[d] : rows[d][j] = PyNone
        THEN Raised("TypeError")
        ELSE IF \E d \in DOMAIN rows : Len(rows[d]) # Len(model.coef)
        THEN Raised("ValueError")
        ELSE PyArray([d \in DOMAIN rows |->
                         LET dot == Dot(model.coef, rows[d], Len(model.coef))
                         IN  PyFloat(dot.num + model.intercept * dot.den, dot.den * 1000)])

\* round(x, 2): the nearest hundredth, a tie going to the even one
Round2(x) ==
    LET scaled == 100 * x.num
        floor == scaled \div x.den
        rem == scaled % x.den
    IN  PyFloat(IF 2 * rem < x.den THEN floor
                ELSE IF 2 * rem > x.den THEN floor + 1
                ELSE IF floor % 2 = 0 THEN floor ELSE floor + 1,
                100)

\* one pass of the loop body with a missing artifact skipped instead of raising
estimate_step_skipping(self, output, personality) ==
    LET input_vec == load_input(self, personality)
    IN  IF IsRaise(input_vec) \/ personality \notin DOMAIN self.models
        THEN Outcome(output, PyNone)
        ELSE LET predicted == Predict(self.models[personality], input_vec)
             IN  IF IsRaise(predicted) THEN Outcome(output, predicted)
                 ELSE Outcome(PyDict((personality :> Round2(predicted.rows[1])) @@ output.items),
                              PyNone)

\* one pass of the loop body of estimate_traits: the output dictionary
\* afterwards and the exception raised, if any
estimate_step(self, output, personality) ==
    LET input_vec == load_input(self, personality)
    IN  IF IsRaise(input_vec) THEN Outcome(output, input_vec)
        ELSE IF personality \notin DOMAIN self.models THEN Outcome(output, Raised("KeyError"))
        ELSE LET predicted == Predict(self.models[personality], input_vec)
             IN  IF IsRaise(predicted) THEN Outcome(output, predicted)
                 ELSE Outcome(PyDict((personality :> Round2(predicted.rows[1])) @@ output.items),
                              PyNone)

\* estimate_traits from the i-th personality on: the dictionary returned or the
\* exception raised
RECURSIVE EstimateFrom(_, _, _)
EstimateFrom(self, output, i) ==
    IF i > Len(self.personalities) THEN output
    ELSE LET step == estimate_step(self, output, self.personalities[i])
         IN  IF IsRaise(step.value) THEN step.value
             ELSE EstimateFrom(self, step.self, i + 1)

estimate_traits(self) == EstimateFrom(self, PyDict(<<>>), 1)

\* Respond.post run on its own: what it returns (jsonify of the mapping) or raises
post(post_data, files) ==
    LET created == Dataset_init(<<>>, post_data)
        generated == generate_features(created)
        processed == process(generated.self)
        predictor == Predictor_init(processed.value[1], processed.value[2],
                                    DEFAULT_PERSONALITIES, files)
    IN  IF IsRaise(generated.value) THEN generated.value
        ELSE estimate_traits(predictor)

---------------------------------------------------------------------------
(* Inputs *)

MaxFrags == 4
MaxPosts == 2
MaxRequests == 2

Fragments ==
    { <<"a">>, <<"A">>, <<"s">>, <<"!">>, <<" ">>, <<"1">>,
      <<"h", "t", "t", "p", ":", "/", "/">>,
      <<"@", "u", "s", "e", "r", "n", "a", "m", "e">> }

\* the texts made of at most n fragments
RECURSIVE FragTexts(_)
FragTexts(n) ==
    IF n = 0 THEN {<<>>}
    ELSE LET shorter == FragTexts(n - 1)
         IN  shorter \cup {t \o f : t \in shorter, f \in Fragments}

SampleTexts ==
    { <<"h", "t", "t", "p", "s", ":", "/", "/", "a", ".", "b", " ", "c">>,
      <<"f", "t", "p", ":", "/", "/", "a">>,
      <<"C", "h", "e", "c", "k", " ", "h", "t", "t", "p", ":", "/", "/", "x", ".", "c", "o",
        " ", "n", "o", "w", "!", "!", "!", " ", "@", "u", "s", "e", "r", "n", "a", "m", "e",
        " ", "s", "o", "o", "o", "o", " ", "g", "o", "o", "d">> }

Texts == FragTexts(MaxFrags) \cup SampleTexts

\* I love this!!! :) #great
Post1 ==
    <<"I", " ", "l", "o", "v", "e", " ", "t", "h", "i", "s", "!", "!", "!", " ", ":", ")",
      " ", "#", "g", "r", "e", "a", "t">>
\* meh
Post2 ==
    <<"m", "e", "h">>
\* @username soooo good :-D
Post3 ==
    <<"@", "u", "s", "e", "r", "n", "a", "m", "e", " ", "s", "o", "o", "o", "o", " ", "g",
      "o", "o", "d", " ", ":", "-", "D">>
\* !!!! :) !
Post4 ==
    <<"!", "!", "!", "!", " ", ":", ")", " ", "!">>
\* xD </3 =p ;'-( :'3
Post5 ==
    <<"x", "D", " ", "<", "/", "3", " ", "=", "p", " ", ";", "'", "-", "(", " ", ":", "'",
      "3">>
\* aaAA___1111 #a_1 ##
Post6 ==
    <<"a", "a", "A", "A", "_", "_", "_", "1", "1", "1", "1", " ", "#", "a", "_", "1", " ",
      "#", "#">>
\* the empty text
Post7 ==
    <<>>

PostPool == {Post1, Post2, Post3, Post4, Post5, Post6, Post7}

\* the lists of at most n post dictionaries {"text": ...} over PostPool
RECURSIVE PostLists(_)
PostLists(n) ==
    IF n = 0 THEN {<<>>}
    ELSE LET shorter == PostLists(n - 1)
         IN  shorter \cup {Append(l, [text |-> t]) : l \in shorter, t \in PostPool}

\* what a caller may pass as timeline_list
TimelineLists == {PyNone} \cup {PyList(l) : l \in PostLists(MaxPosts)}

\* the request bodies' "posts" values
ServerPosts ==
    { PyList(<<>>),
      PyList(<<[text |-> Post1], [text |-> Post2]>>),
      PyList(<<[text |-> Post4], [text |-> Post3]>>) }

\* which artifact files exist
AllFiles == [vectorizer |-> TraitSet, model |-> TraitSet]
Disks == [vectorizer : SUBSET TraitSet, model : SUBSET TraitSet]
ServingDisks ==
    { AllFiles,
      [AllFiles EXCEPT !.model = TraitSet \ {"open"}],
      [AllFiles EXCEPT !.vectorizer = TraitSet \ {"stable"}] }

---------------------------------------------------------------------------
(* The normaliser called on its own *)

NoDataset == PyNone

InitNormalize ==
    /\ sample \in Texts
    /\ normalized = PyNone
    /\ renormalized = PyNone
    /\ data = NoDataset
    /\ caller = PyNone
    /\ serving = FALSE
    /\ disk = <<>>
    /\ loads = <<>>
    /\ req = <<>>

Normalize ==
    /\ normalized = PyNone
    /\ normalized' = PyStr(process_tweet(sample))
    /\ UNCHANGED <<sample, renormalized, data, caller, serving, disk, loads, req>>

Renormalize ==
    /\ normalized # PyNone
    /\ renormalized = PyNone
    /\ renormalized' = PyStr(process_tweet(normalized.chars))
    /\ UNCHANGED <<sample, normalized, data, caller, serving, disk, loads, req>>

NextNormalize == Normalize \/ Renormalize

SpecNormalize == InitNormalize /\ [][NextNormalize]_vars

---------------------------------------------------------------------------
(* A Dataset driven by a caller in any order *)

CountNames ==
    {"count_avg_emoticons", "count_avg_hashtags", "count_avg_exclamations",
     "count_avg_replies", "count_avg_repetitions", "count_avg_tweet_len"}

CountAvg(name, self) ==
    CASE name = "count_avg_emoticons" -> count_avg_emoticons(self)
      [] name = "count_avg_hashtags" -> count_avg_hashtags(self)
      [] name = "count_avg_exclamations" -> count_avg_exclamations(self)
      [] name = "count_avg_replies" -> count_avg_replies(self)
      [] name = "count_avg_repetitions" -> count_avg_repetitions(self)
      [] name = "count_avg_tweet_len" -> count_avg_tweet_len(self)

\* a timeline list shared by all Dataset objects: what a list made once, at
\* class level or as a default argument, would hold
SharedTimeline ==
    IF \E q \in DOMAIN req : req[q].data # NoDataset
    THEN req[CHOOSE q \in DOMAIN req : req[q].data # NoDataset].data.timeline.items
    ELSE <<>>

\* the list object that "self.timeline = []" creates
NewTimeline == <<>>

InitDataset ==
    /\ sample = <<>>
    /\ normalized = PyNone
    /\ renormalized = PyNone
    /\ serving = FALSE
    /\ disk = <<>>
    /\ loads = <<>>
    /\ req = <<>>
    /\ \E timeline_list \in TimelineLists :
           /\ data = Dataset_init(NewTimeline, timeline_list)
           /\ caller = [ posts |-> timeline_list, call |-> "Dataset",
                         value |-> PyNone, generated |-> FALSE ]

CallGenerateFeatures ==
    /\ data # NoDataset
    /\ LET out == generate_features(data)
       IN  /\ data' = out.self
           /\ caller' = [caller EXCEPT !.call = "generate_features",
                                       !.value = out.value,
                                       !.generated = @ \/ ~IsRaise(out.value)]
    /\ UNCHANGED <<sample, normalized, renormalized, serving, disk, loads, req>>

CallProcess ==
    /\ data # NoDataset
    /\ LET out == process(data)
       IN  /\ data' = out.self
           /\ caller' = [caller EXCEPT !.call = "process", !.value = out.value]
    /\ UNCHANGED <<sample, normalized, renormalized, serving, disk, loads, req>>

CallCountAvg ==
    /\ data # NoDataset
    /\ \E name \in CountNames :
           caller' = [caller EXCEPT !.call = name, !.value = CountAvg(name, data)]
    /\ UNCHANGED <<data, sample, normalized, renormalized, serving, disk, loads, req>>

NextDataset == CallGenerateFeatures \/ CallProcess \/ CallCountAvg

SpecDataset == InitDataset /\ [][NextDataset]_vars

---------------------------------------------------------------------------
(* The Flask application: Respond.post, one step per statement *)

Idle ==
    [ pc |-> "idle", post_data |-> PyNone, data |-> NoDataset,
      processed_timeline |-> PyNone, features |-> PyNone, predictor |-> PyNone,
      i |-> 0, output |-> PyNone, response |-> PyNone ]

NoLoads == [vectorizer |-> [t \in TraitSet |-> 0], model |-> [t \in TraitSet |-> 0]]

InitServer(requests, disks) ==
    /\ sample = <<>>
    /\ normalized = PyNone
    /\ renormalized = PyNone
    /\ data = NoDataset
    /\ caller = PyNone
    /\ serving = TRUE
    /\ disk \in disks
    /\ loads = NoLoads
    /\ req = [r \in requests |-> Idle]

harness == <<sample, normalized, renormalized, data, caller>>

\* the request's record after a call: out is the call's Outcome; an exception
\* ends the request, its locals staying as they are
Failed(request, exc) == [request EXCEPT !.response = exc, !.pc = "failed"]

AfterGenerateFeatures(request, out) ==
    IF IsRaise(out.value)
    THEN Failed([request EXCEPT !.data = out.self], out.value)
    ELSE [request EXCEPT !.data = out.self, !.pc = "L161"]

AfterProcess(request, out) ==
    [request EXCEPT !.data = out.self,
                    !.processed_timeline = out.value[1],
                    !.features = out.value[2],
                    !.pc = "L163"]

AfterEstimateStep(request, step) ==
    IF IsRaise(step.value)
    THEN Failed([request EXCEPT !.output = step.self], step.value)
    ELSE [request EXCEPT !.output = step.self, !.i = @ + 1]

\* line 158: post_data = request.get_json()['posts']
Receive ==
    /\ serving
    /\ \E r \in DOMAIN req :
           /\ req[r].pc = "idle"
           /\ \E post_data \in ServerPosts :
                  req' = [req EXCEPT ![r].post_data = post_data, ![r].pc = "L159"]
    /\ UNCHANGED <<harness, serving, disk, loads>>

\* line 159: data = Dataset(post_data)
NewDataset ==
    /\ \E r \in DOMAIN req :
           /\ req[r].pc = "L159"
           /\ req' = [req EXCEPT ![r].data = Dataset_init(NewTimeline, req[r].post_data),
                                 ![r].pc = "L160"]
    /\ UNCHANGED <<harness, serving, disk, loads>>

\* line 160: data.generate_features()
GenerateFeatures ==
    /\ \E r \in DOMAIN req :
           /\ req[r].pc = "L160"
           /\ req' = [req EXCEPT ![r] =
                          AfterGenerateFeatures(req[r], generate_features(req[r].data))]
    /\ UNCHANGED <<harness, serving, disk, loads>>

\* line 161: processed_timeline, features = data.process()
Process ==
    /\ \E r \in DOMAIN req :
           /\ req[r].pc = "L161"
           /\ req' = [req EXCEPT ![r] = AfterProcess(req[r], process(req[r].data))]
    /\ UNCHANGED <<harness, serving, disk, loads>>

\* line 163: predictor = Predictor(processed_timeline, features)
NewPredictor ==
    /\ \E r \in DOMAIN req :
           /\ req[r].pc = "L163"
           /\ req' = [req EXCEPT ![r].predictor =
                                     Predictor_init(req[r].processed_timeline,
                                                    req[r].features,
                                                    DEFAULT_PERSONALITIES, disk),
                                 ![r].pc = "L164"]
    /\ loads' = CountLoads(loads, DEFAULT_PERSONALITIES, disk)
    /\ UNCHANGED <<harness, serving, disk>>

\* line 164, entering estimate_traits: output = {}
BeginEstimate ==
    /\ \E r \in DOMAIN req :
           /\ req[r].pc = "L164"
           /\ req' = [req EXCEPT ![r].output = PyDict(<<>>), ![r].i = 1, ![r].pc = "L149"]
    /\ UNCHANGED <<harness, serving, disk, loads>>

\* lines 149..151: one pass of the loop of estimate_traits
EstimateTrait ==
    /\ \E r \in DOMAIN req :
           /\ req[r].pc = "L149"
           /\ req[r].i <= Len(req[r].predictor.personalities)
           /\ req' = [req EXCEPT ![r] =
                          AfterEstimateStep(
                              req[r],
                              estimate_step(req[r].predictor, req[r].output,
                                            req[r].predictor.personalities[req[r].i]))]
    /\ UNCHANGED <<harness, serving, disk, loads>>

\* lines 152 and 166: return output; return jsonify(output)
Return ==
    /\ \E r \in DOMAIN req :
           /\ req[r].pc = "L149"
           /\ req[r].i > Len(req[r].predictor.personalities)
           /\ req' = [req EXCEPT ![r].response = req[r].output, ![r].pc = "done"]
    /\ UNCHANGED <<harness, serving, disk, loads>>

Next ==
    \/ Receive
    \/ NewDataset
    \/ GenerateFeatures
    \/ Process
    \/ NewPredictor
    \/ BeginEstimate
    \/ EstimateTrait
    \/ Return

\* concurrent requests
Init == InitServer(1..MaxRequests, ServingDisks)
Spec == Init /\ [][Next]_vars

\* one request, every combination of missing artifact files
InitSingle == InitServer({1}, Disks)
SpecSingle == InitSingle /\ [][Next]_vars

\* the module used as a library or run as the application
InitEither == InitDataset \/ InitSingle
NextEither == NextDataset \/ Next
SpecEither == InitEither /\ [][NextEither]_vars

---------------------------------------------------------------------------
(* Properties of the normaliser (SpecNormalize) *)

Contains(word, lit) == \E i \in DOMAIN word : StartsWithAt(word, i, lit)

\* C3: normalisation is idempotent: normalising an already normalised text
\* gives the same text, for every text
C3_Idempotent ==
    renormalized # PyNone => renormalized = normalized

\* C6: the output of process_tweet consists of lowercase ASCII letters and
\* single spaces only, with no leading or trailing space; none of its tokens
\* is a stopword; a URL match leaves a token that contains "url" and an
\* @username occurrence outside a URL leaves a token that contains "rep"
C6_CleanOutput ==
    normalized # PyNone =>
        LET out == normalized.chars
            tokens == Range(Split(out))
        IN  /\ \A i \in DOMAIN out : out[i] = " " \/ IsLower(out[i])
            /\ out # <<>> => out[1] # " " /\ out[Len(out)] # " "
            /\ \A i \in DOMAIN out : i < Len(out) => ~(out[i] = " " /\ out[i + 1] = " ")
            /\ \A w \in tokens : w \notin english_stopwords
            /\ (\E i \in DOMAIN sample : UrlMatchLen(sample, i) > 0)
                   => \E w \in tokens : Contains(w, Lower(URL_TAG))
            /\ Contains(UrlSubFrom(sample, 1), AT_USERNAME)
                   => \E w \in tokens : Contains(w, Lower(REPLY_TAG))

\* the example of the specification: stopword "now" dropped, both tags kept
C6_Witness ==
    /\ Contains(sample, AT_USERNAME)
    /\ \E i \in DOMAIN sample : UrlMatchLen(sample, i) > 0
    /\ \E w \in Range(Split(Lower(LettersOnly(sample)))) : w \in english_stopwords
    /\ normalized = PyStr(<<"c", "h", "e", "c", "k", " ", "u", "r", "l", " ", "r", "e", "p",
                            " ", "s", "o", "o", "o", " ", "g", "o", "o", "d">>)

---------------------------------------------------------------------------
(* Properties of Dataset (SpecDataset) *)

FeatureCalls == CountNames \cup {"generate_features"}

\* C1: on an empty batch generate_features and each count_avg_* end in
\* EmptyBatchError: no division by zero, no value returned
C1_EmptyBatchError ==
    (/\ data # NoDataset
     /\ data.timeline.items = <<>>
     /\ caller.call \in FeatureCalls)
        => caller.value = Raised("EmptyBatchError")

\* the per-post counts, stated on positions of the text
Occurrences(kind, t) ==
    CASE kind = "emoticons" ->
             Cardinality({i \in DOMAIN t : EmoticonMatchLen(t, i) > 0})
      [] kind = "hashtags" ->
             Cardinality({i \in DOMAIN t : t[i] = "#" /\ i < Len(t) /\ IsWordChar(t[i + 1])})
      [] kind = "exclamations" ->
             Cardinality({i \in DOMAIN t : t[i] = "!" /\ (i = 1 \/ t[i - 1] # "!")})
      [] kind = "replies" ->
             Cardinality({i \in DOMAIN t : StartsWithAt(t, i, AT_USERNAME)})
      [] kind = "repetitions" ->
             Cardinality({i \in DOMAIN t :
                             /\ IsWordChar(t[i])
                             /\ i = 1 \/ t[i - 1] # t[i]
                             /\ i + 3 <= Len(t)
                             /\ \A k \in 1..3 : t[i + k] = t[i]})
      [] kind = "tweet_len" -> Len(t)

RECURSIVE TotalUpTo(_, _, _)
TotalUpTo(kind, texts, n) ==
    IF n = 0 THEN 0 ELSE TotalUpTo(kind, texts, n - 1) + Occurrences(kind, texts[n])

Average(kind, texts) == PyFloat(TotalUpTo(kind, texts, Len(texts)), Len(texts))

\* C4: for a non-empty batch, process() after generate_features() returns the
\* six averages in the order emoticons, hashtags, exclamations, replies,
\* repetitions, length, each the sum of the per-post counts over the raw
\* posts divided by the number of posts; every such call returns this vector
C4_FeatureVector ==
    (/\ data # NoDataset
     /\ caller.call = "process"
     /\ caller.generated
     /\ data.timeline.items # <<>>)
        => LET texts == TextsOf(caller.posts.items)
           IN  caller.value[2] =
                   << Average("emoticons", texts), Average("hashtags", texts),
                      Average("exclamations", texts), Average("replies", texts),
                      Average("repetitions", texts), Average("tweet_len", texts) >>

C4_Witness ==
    /\ data # NoDataset
    /\ caller.call = "process"
    /\ caller.generated
    /\ caller.posts = PyList(<<[text |-> Post3], [text |-> Post6]>>)
    /\ caller.value[2] = << PyFloat(1, 2), PyFloat(1, 2), PyFloat(0, 2),
                            PyFloat(1, 2), PyFloat(2, 2), PyFloat(43, 2) >>

RECURSIVE AllTokens(_)
AllTokens(outs) ==
    IF outs = <<>> THEN <<>> ELSE Split(Head(outs)) \o AllTokens(Tail(outs))

RECURSIVE TotalLen(_)
TotalLen(outs) ==
    IF outs = <<>> THEN 0 ELSE Len(Head(outs)) + TotalLen(Tail(outs))

Normalized(texts) == [i \in DOMAIN texts |-> process_tweet(texts[i])]

\* C5 as stated: the combined document is the single-space join of the
\* normalised tokens of all posts in post order, with no leading, trailing or
\* doubled space, also when some post normalises to the empty string
C5_TokenJoin ==
    (data # NoDataset /\ caller.call = "process")
        => caller.value[1][1].chars = Join(AllTokens(Normalized(data.timeline.items)))

\* C5 amended: the combined document is the single-space join of the
\* normalised posts in post order: its tokens are the posts' tokens in post
\* order, exactly one space separates the outputs of consecutive posts, and
\* when no post normalises to the empty string it is the single-space join of
\* the tokens
C5_OutputJoin ==
    (data # NoDataset /\ caller.call = "process")
        => LET outs == Normalized(data.timeline.items)
               doc == caller.value[1][1].chars
           IN  /\ Split(doc) = AllTokens(outs)
               /\ Len(doc) = TotalLen(outs) + (IF outs = <<>> THEN 0 ELSE Len(outs) - 1)
               /\ (\A i \in DOMAIN outs : outs[i] # <<>>) => doc = Join(AllTokens(outs))

\* a post that normalises to the empty string in front of one that does not
C5_Witness ==
    /\ data # NoDataset
    /\ caller.call = "process"
    /\ caller.posts = PyList(<<[text |-> Post4], [text |-> Post2]>>)
    /\ caller.value[1][1] = PyStr(<<" ", "m", "e", "h">>)

---------------------------------------------------------------------------
(* Properties of Predictor and Respond.post *)

Finished(request) == request.pc \in {"done", "failed"}

\* C2: when an artifact file of some configured trait is missing, no request
\* returns a mapping, whole or partial: estimate_traits never returns
C2_WholeFailure ==
    disk # AllFiles =>
        \A r \in DOMAIN req : req[r].pc # "done" /\ req[r].response.tag # "dict"

\* a request failed on a missing artifact after scores of other traits were
\* already in its output dictionary
C2_Witness ==
    \E r \in DOMAIN req :
        /\ disk # AllFiles
        /\ req[r].pc = "failed"
        /\ req[r].response = Raised("KeyError")
        /\ req[r].output # PyNone
        /\ DOMAIN req[r].output.items # {}

\* thousand times the score of the linear model on the text counts followed
\* by the features, as a numerator over the number of posts n
RECURSIVE WeightedTo(_, _, _, _, _)
WeightedTo(coef, counts, features, n, k) ==
    IF k = 0 THEN 0
    ELSE WeightedTo(coef, counts, features, n, k - 1)
             + (IF k <= Len(counts)
                THEN coef[k] * counts[k].num * n
                ELSE coef[k] * features[k - Len(counts)].num)

Abs(x) == IF x < 0 THEN -x ELSE x

\* C7: a returned mapping has exactly the configured traits as keys, and the
\* value of trait t is a number of hundredths nearest to the output of t's own
\* model on the row made of t's own vectorizer's counts for the document
\* followed by the six features
C7_Scores ==
    \A r \in DOMAIN req :
        req[r].pc = "done" =>
            /\ req[r].response.tag = "dict"
            /\ DOMAIN req[r].response.items = TraitSet
            /\ \A t \in TraitSet :
                   LET n == Len(req[r].data.timeline.items)
                       counts == Transform(VectorizerFile(t), req[r].processed_timeline)[1]
                       model == ModelFile(t)
                       thousandths == WeightedTo(model.coef, counts, req[r].features, n,
                                                 Len(model.coef)) + model.intercept * n
                       score == req[r].response.items[t]
                   IN  /\ Len(model.coef) = Len(counts) + Len(req[r].features)
                       /\ \A k \in DOMAIN req[r].features : req[r].features[k].den = n
                       /\ score.tag = "float"
                       /\ score.den = 100
                       /\ 2 * Abs(score.num * 10 * n - thousandths) <= 10 * n

C7_Witness ==
    \E r \in DOMAIN req :
        /\ disk = AllFiles
        /\ req[r].pc = "done"
        /\ req[r].post_data = PyList(<<[text |-> Post1], [text |-> Post2]>>)
        /\ req[r].response.items["extroverted"] # req[r].response.items["stable"]
        /\ req[r].response.items["open"] # req[r].response.items["agreeable"]

\* C8: every artifact is loaded exactly once, before the first request is
\* handled, and never again
C8_LoadedOnce ==
    (\E r \in DOMAIN req : req[r].pc # "idle") =>
        /\ \A t \in disk.vectorizer : loads.vectorizer[t] = 1
        /\ \A t \in disk.model : loads.model[t] = 1

\* C9: under any interleaving, a finished request's response is the one the
\* handler gives when it runs alone on the same posts
C9_Independent ==
    \A r \in DOMAIN req :
        Finished(req[r]) => req[r].response = post(req[r].post_data, disk)

\* one request answered while another, with other posts, is inside its loop
C9_Witness ==
    \E r, q \in DOMAIN req :
        /\ r # q
        /\ req[r].pc = "done"
        /\ req[q].pc = "L149"
        /\ req[q].i = 3
        /\ req[q].post_data # req[r].post_data

SixFields(self) ==
    << self.avg_emoticon_counts, self.avg_hashtag_counts, self.avg_exclamation_counts,
       self.avg_reply_counts, self.avg_repetition_counts, self.avg_tweet_len >>

RawTexts(posts) == IF posts = PyNone THEN <<>> ELSE TextsOf(posts.items)

\* C10: process() returns the six fields as generate_features() last set them
\* and computes none: all six are None when generate_features() has not run;
\* in Respond.post generate_features() has completed before process() runs,
\* so no None feature reaches a Predictor; the raw timeline is never modified
C10_FeaturesFromGenerate ==
    /\ data # NoDataset =>
           /\ data.timeline = PyList(RawTexts(caller.posts))
           /\ caller.call = "process" =>
                  /\ caller.value[2] = SixFields(data)
                  /\ ~caller.generated => \A k \in 1..6 : caller.value[2][k] = PyNone
                  /\ caller.generated => \A k \in 1..6 : caller.value[2][k].tag = "float"
    /\ \A r \in DOMAIN req :
           /\ req[r].data # NoDataset =>
                  /\ req[r].data.timeline = PyList(RawTexts(req[r].post_data))
                  /\ req[r].data.processed_timeline # PyNone =>
                         \A k \in 1..6 : SixFields(req[r].data)[k].tag = "float"
           /\ req[r].predictor # PyNone =>
                  /\ req[r].data.timeline.items # <<>>
                  /\ \A k \in 1..6 : req[r].predictor.features[k].tag = "float"

\* process() called on a non-empty batch before generate_features()
C10_Witness ==
    /\ data # NoDataset
    /\ data.timeline.items # <<>>
    /\ caller.call = "process"
    /\ ~caller.generated
    /\ caller.value[2] = <<PyNone, PyNone, PyNone, PyNone, PyNone, PyNone>>

=============================================================================
